---- MODULE Spec2Model ----
(***************************************************************************)
(* A model of src/main.py: a Flask web server (main thread) that receives  *)
(* Telegram webhook POSTs and hands the updates to a python-telegram-bot   *)
(* application running on an asyncio event loop in a background thread.    *)
(*                                                                         *)
(* Environment assumptions of the model: calls to the Telegram Bot API     *)
(* (reply_text, edit_message_text, answer, initialize, set_webhook)        *)
(* succeed; the completion API may return content, return no content or    *)
(* raise.  Each handler coroutine reads or writes USER_LANGUAGE in one     *)
(* synchronous stretch, so a handler is one atomic step; updates are taken *)
(* from the loop in submission order.                                      *)
(***************************************************************************)
EXTENDS Integers, Sequences, FiniteSets, TLC

\* Bound of the model: the number of webhook POSTs the server receives.
MaxRequests == 3

VARIABLES
    main_pc,        \* position of the main thread (__main__, lines 225-228)
    bg_pc,          \* position of the background thread (run_event_loop)
    application,    \* global application (line 47)
    event_loop,     \* global event_loop (line 48)
    USER_LANGUAGE,  \* global USER_LANGUAGE (line 52): user id -> language code
    loop_queue,     \* coroutines submitted to the loop and not yet run
    n_requests,     \* number of webhook POSTs received so far
    last_response,  \* the last webhook POST and the HTTP response it got
    rejected,       \* ids of the webhook POSTs answered 403
    handled,        \* the last update a handler processed, and what it did
    last_valid,     \* per user, the code of the latest supported selection
    menu            \* a language table and the keyboard language_menu builds

vars == <<main_pc, bg_pc, application, event_loop, USER_LANGUAGE, loop_queue,
          n_requests, last_response, rejected, handled, last_valid, menu>>

----------------------------------------------------------------------------
\* Configuration and tables

TELEGRAM_WEBHOOK_SECRET == "s3cret"

NoHeader == "None"

Headers == {TELEGRAM_WEBHOOK_SECRET, "wrong", NoHeader}

\* The dictionary SUPPORTED_LANGUAGES: code -> (en_name, native_name, emoji).
\* Native names and flag emoji are written in ASCII.
SUPPORTED_LANGUAGES ==
    [fa |-> <<"Persian (Farsi)", "Farsi", "flag-IR">>,
     fr |-> <<"French", "Francais", "flag-FR">>,
     de |-> <<"German", "Deutsch", "flag-DE">>,
     es |-> <<"Spanish", "Espanol", "flag-ES">>,
     it |-> <<"Italian", "Italiano", "flag-IT">>,
     tr |-> <<"Turkish", "Turkce", "flag-TR">>,
     ru |-> <<"Russian", "Russkiy", "flag-RU">>,
     ar |-> <<"Arabic", "Arabiya", "flag-SA">>,
     zh |-> <<"Chinese", "Zhongwen", "flag-CN">>]

\* The iteration order of SUPPORTED_LANGUAGES.items() (insertion order).
LanguageCodes == <<"fa", "fr", "de", "es", "it", "tr", "ru", "ar", "zh">>

SupportedCodes == DOMAIN SUPPORTED_LANGUAGES

DEFAULT_LANGUAGE_fr == "fr"

DEFAULT_LANGUAGE == "fa"

\* SUPPORTED_LANGUAGES.get(lang_code, ("Unknown", "", ""))
LangEntry(lang_code) ==
    IF lang_code \in SupportedCodes
    THEN SUPPORTED_LANGUAGES[lang_code]
    ELSE <<"Unknown", "", "">>

----------------------------------------------------------------------------
\* Inputs: users, updates, completion outcomes

Users == {1, 2}

\* update.effective_user is None
NoUser == 0

NoText == "None"

NoData == <<>>

\* Texts of plain messages: one English, one French.
Texts == {"Hello", "Bonjour"}

\* Codes a callback payload "setlang|<code>" may carry; "xx" is unsupported.
CallbackCodes == {"fr", "de", "xx"}

\* Messages with text from each user and from no user, and one message
\* without text (a photo, say).
TextMessages ==
    [kind : {"message"}, text : Texts, user : Users \cup {NoUser},
     data : {NoData}]
    \cup [kind : {"message"}, text : {NoText}, user : {1}, data : {NoData}]

Commands ==
    [kind : {"message"}, text : {"/start", "/language"},
     user : {1}, data : {NoData}]

\* An edited message: update.message is None, effective_message has text.
EditedMessages ==
    [kind : {"edited_message"}, text : {"Hello"}, user : {1}, data : {NoData}]

CallbackQueries ==
    [kind : {"callback_query"}, text : {NoText}, user : Users,
     data : {<<"setlang", c>> : c \in CallbackCodes}]
    \cup [kind : {"callback_query"}, text : {NoText}, user : {1},
          data : {<<"other", "fr">>}]

Updates == TextMessages \cup Commands \cup EditedMessages \cup CallbackQueries

NoUpdate == [kind |-> "none", text |-> NoText, user |-> NoUser, data |-> NoData]

\* request.get_json(): no JSON body, or an update
Bodies == {NoUpdate} \cup Updates

\* What client.chat.completions.create does: content, no content, or raises.
Outcomes ==
    {<<"content", "translation">>, <<"empty", "">>,
     <<"raise", "timeout">>, <<"raise", "rate limit">>}

NoOutcome == <<"none", "">>

----------------------------------------------------------------------------
\* The preference store: a dict

EmptyStore == <<>>

\* USER_LANGUAGE[user_id] = lang_code
StoreSet(store, user_id, lang_code) ==
    [k \in DOMAIN store \cup {user_id} |->
        IF k = user_id THEN lang_code ELSE store[k]]

\* USER_LANGUAGE.get(user_id, DEFAULT_LANGUAGE)
StoreGet(store, user_id) ==
    IF user_id \in DOMAIN store THEN store[user_id] ELSE DEFAULT_LANGUAGE

----------------------------------------------------------------------------
\* language_menu: the inline keyboard (lines 82-96)

\* InlineKeyboardButton(f"{emoji} {en_name}", callback_data=f"setlang|{code}")
Button(code) ==
    [text |-> <<SUPPORTED_LANGUAGES[code][3], SUPPORTED_LANGUAGES[code][1]>>,
     callback_data |-> <<"setlang", code>>]

RowFull_three(row) == Len(row) = 3

\* if len(row) == 2
RowFull(row) == Len(row) = 2

\* if row: keyboard.append(row)
FlushRow(keyboard, row) ==
    IF row # <<>> THEN Append(keyboard, row) ELSE keyboard

\* The for loop over the table, from item i on, with the rows built so far
\* and the row being filled.
RECURSIVE MenuLoop(_, _, _, _)
MenuLoop(table, i, keyboard, row) ==
    IF i > Len(table)
    THEN FlushRow(keyboard, row)
    ELSE LET row1 == Append(row, Button(table[i]))
         IN  IF RowFull(row1)
             THEN MenuLoop(table, i + 1, Append(keyboard, row1), <<>>)
             ELSE MenuLoop(table, i + 1, keyboard, row1)

LanguageMenuKeyboard(table) == MenuLoop(table, 1, <<>>, <<>>)

----------------------------------------------------------------------------
\* Replies sent to the user, and the system prompt

Reply(kind, text, markup) == [kind |-> kind, text |-> text, markup |-> markup]

WelcomeReply == Reply("welcome", <<"Hello! I'm your AI translation assistant.">>, <<>>)

MenuReply ==
    Reply("menu", <<"Please select your preferred language for translations:">>,
          LanguageMenuKeyboard(LanguageCodes))

\* f"Your preferred language has been set to: {emoji} {lang_name} ({native_name})"
LanguageSetReply(lang_code) ==
    Reply("edit", <<"Your preferred language has been set to: ",
                    LangEntry(lang_code)[3], LangEntry(lang_code)[1],
                    LangEntry(lang_code)[2]>>, <<>>)

TranslationReply(content) == Reply("text", <<content>>, <<>>)

SorryReply == Reply("text", <<"Sorry, I couldn't generate a response.">>, <<>>)

\* f"Bot error: {e}"
BotErrorReply(e) == Reply("text", <<"Bot error: ", e>>, <<>>)

\* The f-string system_prompt: the text before the target, the target, the
\* text after it.
SystemPrompt(target_lang) ==
    <<"You are a professional translator bot. When a user sends a message in English, translate it into '",
      target_lang,
      "' using fluent, natural, native-level language. When a user sends a message in any other language, translate it into fluent, native-sounding English. Only reply with the translation.">>

NoPrompt == <<>>

\* What handle_message sends after the completion call returned or raised.
CompletionReply(outcome) ==
    IF outcome[1] = "content" THEN TranslationReply(outcome[2])
    ELSE IF outcome[1] = "empty" THEN SorryReply
    ELSE BotErrorReply(outcome[2])

----------------------------------------------------------------------------
\* Initial state

NotHandled ==
    [id |-> 0, handler |-> "none", update |-> NoUpdate, before |-> EmptyStore,
     replies |-> <<>>, calls |-> 0, prompt |-> NoPrompt, target |-> "",
     outcome |-> NoOutcome]

NoResponse ==
    [id |-> 0, header |-> NoHeader, has_update |-> FALSE, status |-> 0,
     submitted |-> FALSE]

InitProgram ==
    /\ main_pc = "start_telegram_bot"
    /\ bg_pc = "not_started"
    /\ application = "None"
    /\ event_loop = "None"
    /\ USER_LANGUAGE = EmptyStore
    /\ loop_queue = <<>>
    /\ n_requests = 0
    /\ last_response = NoResponse
    /\ rejected = {}
    /\ handled = NotHandled
    /\ last_valid = [u \in Users |-> "none"]

Init ==
    /\ InitProgram
    /\ menu = [table |-> LanguageCodes, keyboard |-> <<>>, built |-> FALSE]

----------------------------------------------------------------------------
\* The main thread and the background thread

\* start_telegram_bot: the thread is created and started
StartTelegramBot ==
    /\ main_pc = "start_telegram_bot"
    /\ main_pc' = "sleep"
    /\ bg_pc' = "new_event_loop"
    /\ UNCHANGED <<application, event_loop, USER_LANGUAGE, loop_queue,
                   n_requests, last_response, rejected, handled, last_valid,
                   menu>>

\* time.sleep(2) returns, whatever the background thread has done; app.run
AppRun ==
    /\ main_pc = "sleep"
    /\ main_pc' = "serving"
    /\ UNCHANGED <<bg_pc, application, event_loop, USER_LANGUAGE, loop_queue,
                   n_requests, last_response, rejected, handled, last_valid,
                   menu>>

\* run_event_loop: event_loop = asyncio.new_event_loop()
NewEventLoop ==
    /\ bg_pc = "new_event_loop"
    /\ event_loop' = "Loop"
    /\ bg_pc' = "init_application"
    /\ UNCHANGED <<main_pc, application, USER_LANGUAGE, loop_queue, n_requests,
                   last_response, rejected, handled, last_valid, menu>>

\* init_application: application = ApplicationBuilder()...build(), and the
\* handlers are added, before the first await
BuildApplication ==
    /\ bg_pc = "init_application"
    /\ application' = "Application"
    /\ bg_pc' = "initialize"
    /\ UNCHANGED <<main_pc, event_loop, USER_LANGUAGE, loop_queue, n_requests,
                   last_response, rejected, handled, last_valid, menu>>

\* init_application: initialize, start, set_webhook; then run_forever
InitializeAndStart ==
    /\ bg_pc = "initialize"
    /\ bg_pc' = "run_forever"
    /\ UNCHANGED <<main_pc, application, event_loop, USER_LANGUAGE, loop_queue,
                   n_requests, last_response, rejected, handled, last_valid,
                   menu>>

\* The loop runs coroutines: inside run_until_complete once init_application
\* awaits, and in run_forever.
LoopRunning == bg_pc \in {"initialize", "run_forever"}

----------------------------------------------------------------------------
\* The webhook route

SecretOk_absent(secret_header) ==
    secret_header = TELEGRAM_WEBHOOK_SECRET \/ secret_header = NoHeader

\* not (secret_header != TELEGRAM_WEBHOOK_SECRET)
SecretOk(secret_header) == secret_header = TELEGRAM_WEBHOOK_SECRET

\* if application and event_loop
CanSubmit == application # "None" /\ event_loop # "None"

Response(id, header, body, status, submitted) ==
    [id |-> id, header |-> header, has_update |-> body # NoUpdate,
     status |-> status, submitted |-> submitted]

Webhook(secret_header, json_data) ==
    /\ main_pc = "serving"
    /\ n_requests < MaxRequests
    /\ n_requests' = n_requests + 1
    /\ LET id == n_requests + 1
       IN  IF ~SecretOk(secret_header)
           THEN /\ last_response' = Response(id, secret_header, json_data, 403, FALSE)
                /\ rejected' = rejected \cup {id}
                /\ UNCHANGED loop_queue
           ELSE IF json_data = NoUpdate
           THEN /\ last_response' = Response(id, secret_header, json_data, 400, FALSE)
                /\ UNCHANGED <<rejected, loop_queue>>
           ELSE IF CanSubmit
           THEN /\ loop_queue' = Append(loop_queue, [id |-> id, update |-> json_data])
                /\ last_response' = Response(id, secret_header, json_data, 200, TRUE)
                /\ UNCHANGED rejected
           ELSE /\ last_response' = Response(id, secret_header, json_data, 200, FALSE)
                /\ UNCHANGED <<rejected, loop_queue>>
    /\ UNCHANGED <<main_pc, bg_pc, application, event_loop, USER_LANGUAGE,
                   handled, last_valid, menu>>

----------------------------------------------------------------------------
\* The handlers, run by application.process_update on the event loop

\* update.message is not None
HasMessage(update) == update.kind = "message"

\* query.data.startswith("setlang|")
IsSetlang(data) == data # NoData /\ data[1] = "setlang"

\* query.data.split("|")[1]
CodeOf(data) == data[2]

\* The handler the application picks (lines 164-167): the first of the
\* command handlers, the callback-query handler with pattern ^setlang\| and
\* the message handler with filters.TEXT & ~filters.COMMAND that matches.
Dispatch(update) ==
    IF update.kind = "callback_query"
    THEN IF IsSetlang(update.data) THEN "set_language" ELSE "none"
    ELSE IF update.text = "/start" THEN "start"
    ELSE IF update.text = "/language" THEN "language_menu"
    ELSE IF update.text # NoText THEN "handle_message"
    ELSE "none"

Ignorable_textonly(update) == update.text = NoText

\* if update.message is None or update.message.text is None: return
Ignorable(update) == ~HasMessage(update) \/ update.text = NoText

StoreAfterGet_setdefault(store, user_id) ==
    IF user_id \in DOMAIN store THEN store
    ELSE [k \in DOMAIN store \cup {user_id} |->
            IF k = user_id THEN DEFAULT_LANGUAGE ELSE store[k]]

\* USER_LANGUAGE after USER_LANGUAGE.get(...): a lookup stores nothing
StoreAfterGet(store, user_id) == store

Handled(job, handler, replies, calls, target, prompt, outcome) ==
    [id |-> job.id, handler |-> handler, update |-> job.update,
     before |-> USER_LANGUAGE, replies |-> replies, calls |-> calls,
     prompt |-> prompt, target |-> target, outcome |-> outcome]

NextJob(handler) ==
    /\ LoopRunning
    /\ loop_queue # <<>>
    /\ Dispatch(Head(loop_queue).update) = handler
    /\ loop_queue' = Tail(loop_queue)

Start ==
    /\ NextJob("start")
    /\ LET job == Head(loop_queue)
       IN  handled' = Handled(job, "start",
                              IF HasMessage(job.update) THEN <<WelcomeReply>> ELSE <<>>,
                              0, "", NoPrompt, NoOutcome)
    /\ UNCHANGED <<main_pc, bg_pc, application, event_loop, USER_LANGUAGE,
                   n_requests, last_response, rejected, last_valid, menu>>

LanguageMenu ==
    /\ NextJob("language_menu")
    /\ handled' = Handled(Head(loop_queue), "language_menu", <<MenuReply>>,
                          0, "", NoPrompt, NoOutcome)
    /\ UNCHANGED <<main_pc, bg_pc, application, event_loop, USER_LANGUAGE,
                   n_requests, last_response, rejected, last_valid, menu>>

SetLanguage ==
    /\ NextJob("set_language")
    /\ LET job == Head(loop_queue)
           query == job.update
       IN  IF ~IsSetlang(query.data)
           THEN /\ handled' = Handled(job, "set_language", <<>>, 0, "",
                                      NoPrompt, NoOutcome)
                /\ UNCHANGED <<USER_LANGUAGE, last_valid>>
           ELSE LET lang_code == CodeOf(query.data)
                    user_id == query.user
                IN  /\ USER_LANGUAGE' = StoreSet(USER_LANGUAGE, user_id, lang_code)
                    /\ handled' = Handled(job, "set_language",
                                          <<LanguageSetReply(lang_code)>>, 0, "",
                                          NoPrompt, NoOutcome)
                    /\ last_valid' = IF lang_code \in SupportedCodes
                                     THEN [last_valid EXCEPT ![user_id] = lang_code]
                                     ELSE last_valid
    /\ UNCHANGED <<main_pc, bg_pc, application, event_loop, n_requests,
                   last_response, rejected, menu>>

HandleMessage(outcome) ==
    /\ NextJob("handle_message")
    /\ LET job == Head(loop_queue)
           update == job.update
       IN  IF Ignorable(update)
           THEN /\ handled' = Handled(job, "handle_message", <<>>, 0, "",
                                      NoPrompt, NoOutcome)
                /\ UNCHANGED USER_LANGUAGE
           ELSE LET user_id == update.user
                    target_lang == StoreGet(USER_LANGUAGE, user_id)
                IN  /\ USER_LANGUAGE' = StoreAfterGet(USER_LANGUAGE, user_id)
                    /\ handled' = Handled(job, "handle_message",
                                          <<CompletionReply(outcome)>>, 1,
                                          target_lang, SystemPrompt(target_lang),
                                          outcome)
    /\ UNCHANGED <<main_pc, bg_pc, application, event_loop, n_requests,
                   last_response, rejected, last_valid, menu>>

\* No handler matches the update: process_update does nothing.
Unhandled ==
    /\ NextJob("none")
    /\ handled' = Handled(Head(loop_queue), "none", <<>>, 0, "", NoPrompt,
                          NoOutcome)
    /\ UNCHANGED <<main_pc, bg_pc, application, event_loop, USER_LANGUAGE,
                   n_requests, last_response, rejected, last_valid, menu>>

----------------------------------------------------------------------------
\* The program

Next ==
    \/ StartTelegramBot
    \/ AppRun
    \/ NewEventLoop
    \/ BuildApplication
    \/ InitializeAndStart
    \/ \E secret_header \in Headers, json_data \in Bodies :
            Webhook(secret_header, json_data)
    \/ Start
    \/ LanguageMenu
    \/ SetLanguage
    \/ \E outcome \in Outcomes : HandleMessage(outcome)
    \/ Unhandled

Spec == Init /\ [][Next]_vars

----------------------------------------------------------------------------
\* language_menu applied to language tables of every size

RECURSIVE Pick(_, _)
Pick(S, i) ==
    IF i > Len(LanguageCodes) THEN <<>>
    ELSE (IF i \in S THEN <<LanguageCodes[i]>> ELSE <<>>) \o Pick(S, i + 1)

\* The tables: the entries of SUPPORTED_LANGUAGES at any set of positions,
\* in table order (sizes 0 to 9).
Tables == {Pick(S, 1) : S \in SUBSET (1 .. Len(LanguageCodes))}

MenuInit ==
    /\ InitProgram
    /\ menu \in {[table |-> t, keyboard |-> <<>>, built |-> FALSE] : t \in Tables}

BuildMenu ==
    /\ ~menu.built
    /\ menu' = [menu EXCEPT !.keyboard = LanguageMenuKeyboard(menu.table),
                            !.built = TRUE]
    /\ UNCHANGED <<main_pc, bg_pc, application, event_loop, USER_LANGUAGE,
                   loop_queue, n_requests, last_response, rejected, handled,
                   last_valid>>

MenuNext == BuildMenu

SpecMenu == MenuInit /\ [][MenuNext]_vars

----------------------------------------------------------------------------
\* Properties

\* The last processed update was a plain text message handle_message took
\* through to the completion step.
Translated ==
    /\ handled.handler = "handle_message"
    /\ handled.update.kind = "message"
    /\ handled.calls = 1

\* C1: a webhook POST whose secret header is absent or differs from the
\* configured secret is answered with a client-error status and, in that
\* step, nothing is submitted to the event loop, the preference map and the
\* handlers' output are unchanged; no update of a rejected POST is ever
\* queued or handled, so no reply and no completion call is made for it.
C1_BadSecretRejected ==
    /\ [][(n_requests' # n_requests
            /\ last_response'.header # TELEGRAM_WEBHOOK_SECRET)
          => /\ last_response'.status \in 400 .. 499
             /\ ~last_response'.submitted
             /\ last_response'.id \in rejected'
             /\ loop_queue' = loop_queue
             /\ USER_LANGUAGE' = USER_LANGUAGE
             /\ handled' = handled]_vars
    /\ [](/\ \A i \in 1 .. Len(loop_queue) : loop_queue[i].id \notin rejected
          /\ handled.id \notin rejected)

\* C1 witness: a POST carrying an update but no secret header was rejected
\* while the application and the loop were there to take it.
C1_Witness ==
    /\ last_response.status = 403
    /\ last_response.header = NoHeader
    /\ last_response.has_update
    /\ CanSubmit

\* C2: a selection callback whose code is not supported leaves the
\* preference map as it was and is answered with an unknown-language reply
\* (not the confirmation); so every stored code is a supported one.
C2_UnsupportedCodeNotStored ==
    /\ \A u \in DOMAIN USER_LANGUAGE : USER_LANGUAGE[u] \in SupportedCodes
    /\ (handled.handler = "set_language"
        /\ CodeOf(handled.update.data) \notin SupportedCodes)
       => /\ USER_LANGUAGE = handled.before
          /\ Len(handled.replies) = 1
          /\ handled.replies[1].text[1] # "Your preferred language has been set to: "

C4_LatestValidSelection ==
    (/\ Translated
     /\ handled.update.user \in Users
     /\ last_valid[handled.update.user] # "none")
    => handled.target = last_valid[handled.update.user]

\* C5: for a sender with stored preference P, the system prompt of an
\* English message names the target by P's full name in the table.
C5_PromptNamesFullName ==
    (/\ Translated
     /\ handled.update.text = "Hello"
     /\ handled.update.user \in DOMAIN handled.before
     /\ handled.before[handled.update.user] \in SupportedCodes)
    => handled.prompt[2] = SUPPORTED_LANGUAGES[handled.before[handled.update.user]][1]

C7_FixedFailureString ==
    Translated
    => /\ handled.calls = 1
       /\ handled.outcome[1] \in {"empty", "raise"}
          => handled.replies = <<SorryReply>>
       /\ USER_LANGUAGE = handled.before

\* C8 (as claimed): a message update without message, without text or
\* without sender makes no completion call, sends no reply and leaves the
\* preference map unchanged.
C8_MalformedIgnored ==
    (/\ handled.id > 0
     /\ handled.update.kind \in {"message", "edited_message"}
     /\ \/ handled.update.kind = "edited_message"
        \/ handled.update.text = NoText
        \/ handled.update.user = NoUser)
    => /\ handled.calls = 0
       /\ handled.replies = <<>>
       /\ USER_LANGUAGE = handled.before

\* C8 (amended): a message update without message or without text makes no
\* completion call, sends no reply and leaves the preference map unchanged;
\* a text message without sender is translated, with the default target.
C8_MissingTextIgnored ==
    /\ (/\ handled.id > 0
        /\ handled.update.kind \in {"message", "edited_message"}
        /\ \/ handled.update.kind = "edited_message"
           \/ handled.update.text = NoText)
       => /\ handled.calls = 0
          /\ handled.replies = <<>>
          /\ USER_LANGUAGE = handled.before
    /\ (/\ handled.id > 0
        /\ handled.update.kind = "message"
        /\ handled.update.text \in Texts
        /\ handled.update.user = NoUser)
       => /\ handled.calls = 1
          /\ handled.target = "fa"

\* C8 witness: handle_message was run on an update whose message is None.
C8_Witness ==
    /\ handled.handler = "handle_message"
    /\ handled.update.kind = "edited_message"
    /\ handled.replies = <<>>

RECURSIVE Flatten(_)
Flatten(rows) == IF rows = <<>> THEN <<>> ELSE Head(rows) \o Flatten(Tail(rows))

\* C9: the keyboard holds one button per table entry, in table order; every
\* row but the last holds two buttons, the last one or two, none is empty.
C9_MenuRows ==
    menu.built
    => LET keyboard == menu.keyboard
           buttons == Flatten(keyboard)
       IN  /\ Len(buttons) = Len(menu.table)
           /\ \A i \in 1 .. Len(buttons) :
                /\ buttons[i].callback_data = <<"setlang", menu.table[i]>>
                /\ buttons[i].text[2] = SUPPORTED_LANGUAGES[menu.table[i]][1]
           /\ \A r \in 1 .. Len(keyboard) :
                /\ Len(keyboard[r]) \in {1, 2}
                /\ r < Len(keyboard) => Len(keyboard[r]) = 2

\* C9 witness: the keyboard of the full table of nine: four rows of two and
\* a last row of one.
C9_Witness ==
    /\ menu.built
    /\ menu.table = LanguageCodes
    /\ Len(menu.keyboard) = 5
    /\ Len(menu.keyboard[5]) = 1

\* C10: a POST with the right secret and an update that is answered 200 had
\* its update submitted to the event loop.
C10_AckedIsSubmitted ==
    (/\ last_response.status = 200
     /\ last_response.header = TELEGRAM_WEBHOOK_SECRET
     /\ last_response.has_update)
    => last_response.submitted

====
